---- MODULE Spec2Model ----
(***************************************************************************)
(* Model of the Picard "File Writer" plugin (src/__init__.py): the script  *)
(* function $writeline(file,text[,reset]) and its options page.            *)
(*                                                                         *)
(* Strings are sequences of one-character strings, so that stripping,      *)
(* regular-expression substitution, path joining, normalisation and        *)
(* sanitising are computed character by character as the code does.        *)
(* The platform modelled is POSIX (IS_WIN = IS_MACOS = FALSE), a file      *)
(* system without symbolic links, text files with "\n" line ends.          *)
(*                                                                         *)
(* The host's helpers the plugin imports (is_absolute_path, normpath,      *)
(* make_save_path) and the os.path functions are modelled by what they     *)
(* compute on POSIX.  An OSError of the environment (permissions, a full   *)
(* disk) is an input of each call: makedirs, open or write may raise; a    *)
(* failed makedirs creates nothing, a failed write leaves the file as      *)
(* open() made it.  Variables marked "history" record what an operation    *)
(* did and are read by the properties only.                                *)
(***************************************************************************)
EXTENDS Integers, Sequences, FiniteSets, TLC

\* ------------------------------------------------------------------ bounds
MaxCalls == 2          \* number of $writeline calls in one behaviour

\* --------------------------------------------------------- characters, str
NL == "\n"
SEP == "/"

\* ord(c): the code point, which is what Python's str comparison uses
ord(c) ==
    CASE c = "\n" -> 10
      [] c = " "  -> 32
      [] c = "."  -> 46
      [] c = "/"  -> 47
      [] c = "_"  -> 95
      [] c = "a"  -> 97
      [] c = "b"  -> 98
      [] c = "d"  -> 100
      [] c = "e"  -> 101
      [] c = "f"  -> 102
      [] c = "h"  -> 104
      [] c = "m"  -> 109
      [] c = "o"  -> 111
      [] c = "w"  -> 119
      [] c = "x"  -> 120
      [] c = "y"  -> 121
      [] OTHER    -> 8203      \* "ZWSP", U+200B

\* str < str in Python: lexicographic by code point, a proper prefix is less
RECURSIVE str_lt(_, _)
str_lt(a, b) ==
    IF b = <<>> THEN FALSE
    ELSE IF a = <<>> THEN TRUE
    ELSE IF Head(a) = Head(b) THEN str_lt(Tail(a), Tail(b))
    ELSE ord(Head(a)) < ord(Head(b))

\* \s of the re module, restricted to the characters of the model
IsSpace(c) == c \in {" ", "\n"}

RECURSIVE lstrip(_)
lstrip(s) ==
    IF s = <<>> THEN s
    ELSE IF IsSpace(Head(s)) THEN lstrip(Tail(s)) ELSE s

RECURSIVE rstrip(_)
rstrip(s) ==
    IF s = <<>> THEN s
    ELSE IF IsSpace(s[Len(s)]) THEN rstrip(SubSeq(s, 1, Len(s) - 1)) ELSE s

\* str.strip()
strip(s) == rstrip(lstrip(s))

\* str.split(sep): the pieces between the separators, at least one piece
RECURSIVE split(_, _)
split(s, sep) ==
    IF \A i \in 1..Len(s) : s[i] # sep THEN << s >>
    ELSE LET i == CHOOSE k \in 1..Len(s) :
                      s[k] = sep /\ \A j \in 1..(k - 1) : s[j] # sep
         IN  << SubSeq(s, 1, i - 1) >> \o split(SubSeq(s, i + 1, Len(s)), sep)

\* sep.join(parts)
RECURSIVE str_join(_, _)
str_join(sep, parts) ==
    IF parts = <<>> THEN <<>>
    ELSE IF Len(parts) = 1 THEN parts[1]
    ELSE parts[1] \o << sep >> \o str_join(sep, Tail(parts))

\* sorted(set of str)
RECURSIVE sorted(_)
sorted(S) ==
    IF S = {} THEN <<>>
    ELSE LET m == CHOOSE x \in S : \A y \in S \ {x} : str_lt(x, y)
         IN  << m >> \o sorted(S \ {m})

Range(q) == { q[i] : i \in 1..Len(q) }

\* RE_REPLACE_UNDERSCORES = re.compile(r'[\s_]+'), .sub('_', s)
InUnderscoreClass(c) == IsSpace(c) \/ c = "_"

RECURSIVE SkipUnderscoreClass(_)
SkipUnderscoreClass(s) ==
    IF s = <<>> THEN s
    ELSE IF InUnderscoreClass(Head(s)) THEN SkipUnderscoreClass(Tail(s)) ELSE s

RECURSIVE RE_REPLACE_UNDERSCORES_sub(_)
RE_REPLACE_UNDERSCORES_sub(s) ==
    IF s = <<>> THEN <<>>
    ELSE IF InUnderscoreClass(Head(s))
         THEN << "_" >> \o RE_REPLACE_UNDERSCORES_sub(SkipUnderscoreClass(Tail(s)))
         ELSE << Head(s) >> \o RE_REPLACE_UNDERSCORES_sub(Tail(s))

\* ------------------------------------------------------------------- paths
IS_WIN == FALSE
IS_MACOS == FALSE

\* the working directory of the host process, which realpath() uses
Cwd == << "/", "w" >>

StartsWith(s, pre) == Len(s) >= Len(pre) /\ SubSeq(s, 1, Len(pre)) = pre

\* posixpath.isabs
os_path_isabs(p) == StartsWith(p, << SEP >>)

\* picard.util.is_absolute_path: isabs, or a Windows share on Windows
is_absolute_path(p) ==
    os_path_isabs(p) \/ (IS_WIN /\ StartsWith(p, << "\\", "\\" >>))

\* posixpath.join(a, b)
os_path_join(a, b) ==
    IF StartsWith(b, << SEP >>) THEN b
    ELSE IF a = <<>> \/ a[Len(a)] = SEP THEN a \o b
    ELSE a \o << SEP >> \o b

\* the loop of posixpath.normpath over the components
RECURSIVE NormComps(_, _, _)
NormComps(comps, new_comps, initial_slashes) ==
    IF comps = <<>> THEN new_comps
    ELSE LET comp == Head(comps) IN
         IF comp = <<>> \/ comp = << "." >>
         THEN NormComps(Tail(comps), new_comps, initial_slashes)
         ELSE IF \/ comp # << ".", "." >>
                 \/ (initial_slashes = 0 /\ new_comps = <<>>)
                 \/ (new_comps # <<>> /\ new_comps[Len(new_comps)] = << ".", "." >>)
         THEN NormComps(Tail(comps), Append(new_comps, comp), initial_slashes)
         ELSE IF new_comps # <<>>
         THEN NormComps(Tail(comps), SubSeq(new_comps, 1, Len(new_comps) - 1),
                        initial_slashes)
         ELSE NormComps(Tail(comps), new_comps, initial_slashes)

\* posixpath.normpath
os_path_normpath(path) ==
    IF path = <<>> THEN << "." >>
    ELSE LET initial_slashes ==
                 IF ~StartsWith(path, << SEP >>) THEN 0
                 ELSE IF StartsWith(path, << SEP, SEP >>)
                         /\ ~StartsWith(path, << SEP, SEP, SEP >>) THEN 2
                 ELSE 1
             joined == str_join(SEP, NormComps(split(path, SEP), <<>>, initial_slashes))
             res == [i \in 1..initial_slashes |-> SEP] \o joined
         IN  IF res = <<>> THEN << "." >> ELSE res

\* posixpath.realpath on a file system without symbolic links
os_path_realpath(path) ==
    IF os_path_isabs(path) THEN os_path_normpath(path)
    ELSE os_path_normpath(os_path_join(Cwd, path))

\* picard.util.normpath: os.path.normpath, then os.path.realpath
normpath(path) == os_path_realpath(os_path_normpath(path))

\* str.replace(old, new) for a two-character old and new
RECURSIVE replace2(_, _, _)
replace2(s, old, new) ==
    IF Len(s) < 2 THEN s
    ELSE IF SubSeq(s, 1, 2) = old THEN new \o replace2(SubSeq(s, 3, Len(s)), old, new)
    ELSE << Head(s) >> \o replace2(Tail(s), old, new)

RemoveChar(s, c) == SelectSeq(s, LAMBDA x : x # c)

\* picard.util.filenaming.make_save_path(path, win_compat, mac_compat); the
\* Unicode NFD normalisation of mac_compat changes no character of the model
make_save_path(path, win_compat, mac_compat) ==
    LET p1 == IF win_compat
              THEN LET q == replace2(replace2(path, << ".", "/" >>, << "_", "/" >>),
                                     << ".", "\\" >>, << "_", "\\" >>)
                   IN  IF q # <<>> /\ q[Len(q)] = "."
                       THEN SubSeq(q, 1, Len(q) - 1) \o << "_" >> ELSE q
              ELSE path
        p2 == replace2(replace2(p1, << "/", "." >>, << "/", "_" >>),
                       << "\\", "." >>, << "\\", "_" >>)
        p3 == IF StartsWith(p2, << "." >>) THEN << "_" >> \o Tail(p2) ELSE p2
    IN  RemoveChar(p3, "ZWSP")

\* posixpath.dirname
RECURSIVE rstrip_sep(_)
rstrip_sep(s) ==
    IF s = <<>> THEN s
    ELSE IF s[Len(s)] = SEP THEN rstrip_sep(SubSeq(s, 1, Len(s) - 1)) ELSE s

os_path_dirname(p) ==
    LET idx  == { k \in 1..Len(p) : p[k] = SEP }
        i    == IF idx = {} THEN 0 ELSE CHOOSE k \in idx : \A j \in idx : j <= k
        head == SubSeq(p, 1, i)
    IN  IF head # <<>> /\ \E k \in 1..Len(head) : head[k] # SEP
        THEN rstrip_sep(head) ELSE head

\* the directories os.makedirs(d) has to find or create: d and its ancestors
RECURSIVE Ancestors(_)
Ancestors(d) ==
    IF d = <<>> \/ os_path_dirname(d) = d THEN {d} \ {<<>>}
    ELSE {d} \cup Ancestors(os_path_dirname(d))

\* ---------------------------------------------------------- options page
\* FileWriterOptionsPage.set2text: blank items removed, sorted, one per line
set2text(files) == str_join(NL, sorted(files \ { <<>> }))

\* mutant: text2set without files.discard('')
text2set_KeepsBlank(file_list) == Range(split(file_list, NL))

\* FileWriterOptionsPage.text2set: the lines of the text, blank items removed
text2set(file_list) == Range(split(file_list, NL)) \ { <<>> }

\* ------------------------------------------------------------------ inputs
\* file arguments a script passes to $writeline
ARG_ABS   == << "/", "d", "/", ".", ".", "/", "e", " ", "e" >>  \* absolute, a space
ARG_REL   == << " ", "d", "/", ".", "a", " ", "_", "b" >>  \* relative, subdirectory
ARG_UP    == << ".", ".", "/", "x" >>                      \* relative, climbs out
ARG_BLANK == << " " >>                                     \* blank once stripped
FileArgs == { ARG_ABS, ARG_REL, ARG_UP, ARG_BLANK }

\* text arguments: one without and one with a line break in it
TEXT_X  == << "x" >>
TEXT_XY == << "x", "\n", "y" >>
TextArgs == { TEXT_X, TEXT_XY }

\* the optional reset argument: absent (None), empty, or set
ResetArgs == { "None", "", "1" }
Truthy(reset_file) == reset_file \notin { "None", "" }

\* what the environment does to the I/O of one call
IoOutcomes == { "ok", "makedirs", "open", "write" }

\* the destination directory of the host's file naming options
DEST == << "/", "m" >>
DestDirs == { <<>>, DEST }

\* the file that is on disk before the plugin ever ran
FILE_E == << "/", "e", "_", "e" >>

\* allow-lists the user has stored through the options page in earlier sessions
StoredLists == { {}, { FILE_E }, { ARG_ABS } }

\* entries of a stored allow-list that the options page is opened on, and
\* what the user may type into the allowed_file_paths box
PageEntries == { <<>>, FILE_E, ARG_REL, << "f" >>, << "a", NL, "b" >> }
UserTexts ==
    { <<>>,
      FILE_E,
      << NL >> \o << "f" >> \o << NL, NL >> \o ARG_REL }

OLD_TEXT == << "o", "\n" >>
InitFiles == [ p \in { FILE_E } |-> OLD_TEXT ]
InitDirs == { << SEP >> }

\* --------------------------------------------------------------- the state
VARIABLES
    files_allowed,      \* plugin_config["files_allowed"]: set of str
    writing_enabled,    \* plugin_config["writing_enabled"]
    move_files,         \* global_config.setting["move_files"]
    move_files_to,      \* global_config.setting["move_files_to"]
    replace_spaces_with_underscores,
    fs_files,           \* the regular files on disk: path -> content
    fs_dirs,            \* the directories on disk
    page_open,          \* an options page exists (load() .. save())
    ui_text,            \* ui.allowed_file_paths
    ui_checked,         \* ui.enable_file_writing
    loaded,             \* history: what the last load() read, if nothing intervened
    registered,         \* history: file arguments auto-registered and still listed
    ncalls,             \* number of $writeline calls so far
    last                \* history: the last operation and what it did

vars == << files_allowed, writing_enabled, move_files, move_files_to,
           replace_spaces_with_underscores, fs_files, fs_dirs, page_open,
           ui_text, ui_checked, loaded, registered, ncalls, last >>

config_vars == << files_allowed, writing_enabled >>
global_vars == << move_files, move_files_to, replace_spaces_with_underscores >>
fs_vars == << fs_files, fs_dirs >>
ui_vars == << page_open, ui_text, ui_checked >>

NotLoaded == [ valid |-> FALSE, fa |-> {}, we |-> FALSE ]

NoOp ==
    [ op |-> "init", file |-> <<>>, text |-> <<>>, reset |-> "None",
      stage |-> "none", ofile |-> <<>>, target |-> <<>>, existed |-> FALSE,
      listed |-> FALSE, again |-> FALSE, before |-> <<>>, was_allowed |-> {},
      was_enabled |-> FALSE, roundtrip |-> FALSE,
      logs |-> {}, raised |-> "none", ret |-> <<>>, propagated |-> FALSE ]

\* ---------------------------------------------------------- func_writeline
\* mutant: the enable switch is not consulted
WritingDisabled_Never(enabled) == FALSE

\* if not settings['writing_enabled']: warn and return
WritingDisabled(enabled) == ~enabled

\* the "fully expanded files for checking" built from the configured list
ExpandAllowed(settings_allowed, dest) ==
    { make_save_path(
          normpath(IF ~is_absolute_path(file) THEN os_path_join(dest, file) ELSE file),
          IS_WIN, IS_MACOS) : file \in settings_allowed }

\* file_to_write after strip() and the optional underscore substitution (ofile)
Substituted(file_to_write, replace) ==
    IF replace THEN RE_REPLACE_UNDERSCORES_sub(strip(file_to_write))
    ELSE strip(file_to_write)

\* mutant: only move_files_to is tested, move_files is forgotten
Refused_ForgetsMoveFiles(ofile, mf, dest) == ~is_absolute_path(ofile) /\ dest = <<>>

\* a relative path needs move_files and a non-empty move_files_to
Refused(ofile, mf, dest) == ~is_absolute_path(ofile) /\ ~(mf /\ dest # <<>>)

\* mutant: the path is normalised but not sanitised
ResolveTarget_Unsanitised(ofile, dest) ==
    normpath(IF ~is_absolute_path(ofile) THEN os_path_join(dest, ofile) ELSE ofile)

\* the path written: joined to the destination directory if relative, then
\* normalised and sanitised
ResolveTarget(ofile, dest) ==
    make_save_path(
        normpath(IF ~is_absolute_path(ofile) THEN os_path_join(dest, ofile) ELSE ofile),
        IS_WIN, IS_MACOS)

\* os.path.exists
os_path_exists(p) == p \in DOMAIN fs_files \/ p \in fs_dirs

\* mutant: the resolved path is registered instead of the path as passed
Registration_Target(settings_allowed, ofile, target, exists) ==
    IF ~exists THEN settings_allowed \cup { target } ELSE settings_allowed

\* the entry a call adds to files_allowed when its target does not exist
Registration(settings_allowed, ofile, target, exists) ==
    IF ~exists THEN settings_allowed \cup { ofile } ELSE settings_allowed

\* what the allow-list test does to the call: it logs, and the call goes on
StopsUnlisted(target, allowed_files) == FALSE

\* mutant: reset_file is ignored
WriteMode_AlwaysAppend(reset_file) == "a"

\* write_mode = 'w' if reset_file else 'a'
WriteMode(reset_file) == IF Truthy(reset_file) THEN "w" ELSE "a"

\* what open(target, mode) makes the content before anything is written
Opened(target, mode) ==
    IF mode = "w" \/ target \notin DOMAIN fs_files THEN <<>> ELSE fs_files[target]

\* f.write(text_to_write + '\n')
Written(content, text_to_write) == content \o text_to_write \o << NL >>

\* mutant: no except clause, the OSError reaches the script engine
Outcome_Uncaught(raised) ==
    [ ret |-> <<>>, propagated |-> raised # "none", logs |-> {} ]

\* try: ... except OSError: log; return "": what the script engine gets
Outcome(raised) ==
    [ ret |-> <<>>, propagated |-> FALSE,
      logs |-> IF raised = "none" THEN {} ELSE { "Error writing to file" } ]

\* the parts of the call from the allow-list test on: makedirs, open, write
DoWrite(target, text_to_write, reset_file, io) ==
    LET d        == os_path_dirname(target)
        needed   == Ancestors(d)
        mk_fail  == \/ d = <<>>
                    \/ needed \cap DOMAIN fs_files # {}
                    \/ (io = "makedirs" /\ ~(needed \subseteq fs_dirs))
        dirs1    == IF mk_fail THEN fs_dirs ELSE fs_dirs \cup needed
        op_fail  == ~mk_fail /\ (target \in dirs1 \/ io = "open")
        opened   == Opened(target, WriteMode(reset_file))
        wr_fail  == ~mk_fail /\ ~op_fail /\ io = "write"
        content  == IF wr_fail THEN opened ELSE Written(opened, text_to_write)
        raised   == IF mk_fail THEN "makedirs"
                    ELSE IF op_fail THEN "open"
                    ELSE IF wr_fail THEN "write" ELSE "none"
    IN  [ files  |-> IF mk_fail \/ op_fail THEN fs_files
                     ELSE [ p \in DOMAIN fs_files \cup { target } |->
                              IF p = target THEN content ELSE fs_files[p] ],
          dirs   |-> dirs1,
          raised |-> raised ]

\* what every path through the call records of its arguments
CallInfo(file_arg, text_to_write, reset_file) ==
    [ NoOp EXCEPT !.op = "writeline", !.file = file_arg, !.text = text_to_write,
                  !.reset = reset_file, !.was_allowed = files_allowed,
                  !.was_enabled = writing_enabled,
                  !.again = file_arg \in registered ]

\* the call from the existence test on, given the resolved names
WriteTarget(base, ofile, target, allowed_files, exists, text_to_write, reset_file, io) ==
    LET allowed2 == IF ~exists THEN allowed_files \cup { target } ELSE allowed_files
        settings == Registration(files_allowed, ofile, target, exists)
        unlisted == target \notin allowed2
        warn     == IF unlisted
                    THEN { "Existing file not in allowed list. File not written" }
                    ELSE {}
        info     == [ base EXCEPT !.ofile = ofile, !.target = target,
                                  !.existed = exists,
                                  !.listed = (target \in allowed_files),
                                  !.before = IF target \in DOMAIN fs_files
                                             THEN fs_files[target] ELSE <<>> ]
    IN
    IF unlisted /\ StopsUnlisted(target, allowed2)
    THEN [ allowed |-> settings, files |-> fs_files, dirs |-> fs_dirs,
           last |-> [ info EXCEPT !.stage = "unlisted", !.logs = warn ] ]
    ELSE
    LET w   == DoWrite(target, text_to_write, reset_file, io)
        out == Outcome(w.raised)
    IN  [ allowed |-> settings, files |-> w.files, dirs |-> w.dirs,
          last |-> [ info EXCEPT !.stage = "write", !.raised = w.raised,
                                 !.ret = out.ret, !.propagated = out.propagated,
                                 !.logs = warn \cup out.logs ] ]

\* the whole of func_writeline on the current state
WriteLine(file_arg, text_to_write, reset_file, io) ==
    LET base == CallInfo(file_arg, text_to_write, reset_file)
        same == [ allowed |-> files_allowed, files |-> fs_files, dirs |-> fs_dirs ]
    IN
    IF WritingDisabled(writing_enabled)
    THEN same @@
         [ last |-> [ base EXCEPT !.stage = "disabled",
                                  !.logs = { "File writing is disabled." } ] ]
    ELSE IF strip(file_arg) = <<>>
    THEN same @@
         [ last |-> [ base EXCEPT !.stage = "blank",
                                  !.logs = { "Missing file path to write." } ] ]
    ELSE
    LET ofile == Substituted(file_arg, replace_spaces_with_underscores) IN
    IF Refused(ofile, move_files, move_files_to)
    THEN same @@
         [ last |-> [ base EXCEPT !.stage = "relative", !.ofile = ofile,
                                  !.logs = { "Move files not enabled. File not written" } ] ]
    ELSE
    LET target == ResolveTarget(ofile, move_files_to) IN
        WriteTarget(base, ofile, target, ExpandAllowed(files_allowed, move_files_to),
                    os_path_exists(target), text_to_write, reset_file, io)

func_writeline(file_arg, text_to_write, reset_file, io) ==
    /\ ncalls < MaxCalls
    /\ \E r \in { WriteLine(file_arg, text_to_write, reset_file, io) } :
       /\ io = "ok" \/ r.last.raised = io
       /\ files_allowed' = r.allowed
       /\ fs_files' = r.files
       /\ fs_dirs' = r.dirs
       /\ last' = r.last
       /\ registered' = IF r.last.stage \in { "write", "unlisted" } /\ ~r.last.existed
                        THEN registered \cup { file_arg } ELSE registered
    /\ ncalls' = ncalls + 1
    /\ loaded' = NotLoaded
    /\ UNCHANGED << writing_enabled, global_vars, ui_vars >>

\* ------------------------------------------------------------ options page
\* load(): fills the two widgets; set2text() discards '' from the set it is
\* given, which is the configured set itself when the host hands out the
\* stored object (aliased) and a copy of it otherwise
load(aliased) ==
    /\ ~page_open
    /\ page_open' = TRUE
    /\ ui_text' = set2text(files_allowed)
    /\ ui_checked' = writing_enabled
    /\ files_allowed' = IF aliased THEN files_allowed \ { <<>> } ELSE files_allowed
    /\ loaded' = [ valid |-> TRUE, fa |-> files_allowed, we |-> writing_enabled ]
    /\ last' = [ NoOp EXCEPT !.op = "load", !.was_allowed = files_allowed,
                             !.was_enabled = writing_enabled ]
    /\ UNCHANGED << writing_enabled, global_vars, fs_vars, registered, ncalls >>

\* the user edits the widgets of the open page
UserEdit(text, checked) ==
    /\ page_open
    /\ << text, checked >> # << ui_text, ui_checked >>
    /\ ui_text' = text
    /\ ui_checked' = checked
    /\ loaded' = NotLoaded
    /\ last' = [ NoOp EXCEPT !.op = "edit" ]
    /\ UNCHANGED << config_vars, global_vars, fs_vars, page_open, registered,
                    ncalls >>

\* save(): stores both widgets; the dialog closes and the page is discarded
save ==
    /\ page_open
    /\ files_allowed' = text2set(ui_text)
    /\ writing_enabled' = ui_checked
    /\ page_open' = FALSE
    /\ ui_text' = <<>>
    /\ ui_checked' = FALSE
    /\ registered' = IF files_allowed \subseteq text2set(ui_text) THEN registered ELSE {}
    /\ last' = [ NoOp EXCEPT !.op = "save", !.roundtrip = loaded.valid,
                             !.was_allowed = loaded.fa, !.was_enabled = loaded.we ]
    /\ loaded' = NotLoaded
    /\ UNCHANGED << global_vars, fs_vars, ncalls >>

\* ------------------------------------------------------ the specifications
\* enable() registers the defaults {} and FALSE; the values in force are the
\* ones the user stored, and the host's file naming options are the user's
Init ==
    /\ files_allowed \in StoredLists
    /\ writing_enabled \in BOOLEAN
    /\ move_files \in BOOLEAN
    /\ move_files_to \in DestDirs
    /\ replace_spaces_with_underscores \in BOOLEAN
    /\ fs_files = InitFiles
    /\ fs_dirs = InitDirs
    /\ page_open = FALSE
    /\ ui_text = <<>>
    /\ ui_checked = FALSE
    /\ loaded = NotLoaded
    /\ registered = {}
    /\ ncalls = 0
    /\ last = NoOp

\* the script engine calls $writeline
Next ==
    \E f \in FileArgs, t \in TextArgs, r \in ResetArgs, io \in IoOutcomes :
        func_writeline(f, t, r, io)

Spec == Init /\ [][Next]_vars

\* the options page, opened on any stored configuration
InitPage ==
    /\ files_allowed \in SUBSET PageEntries
    /\ writing_enabled \in BOOLEAN
    /\ move_files = TRUE
    /\ move_files_to = DEST
    /\ replace_spaces_with_underscores = FALSE
    /\ fs_files = InitFiles
    /\ fs_dirs = InitDirs
    /\ page_open = FALSE
    /\ ui_text = <<>>
    /\ ui_checked = FALSE
    /\ loaded = NotLoaded
    /\ registered = {}
    /\ ncalls = 0
    /\ last = NoOp

NextPage ==
    \/ \E aliased \in BOOLEAN : load(aliased)
    \/ \E t \in UserTexts, c \in BOOLEAN : UserEdit(t, c)
    \/ save

SpecPage == InitPage /\ [][NextPage]_vars

\* ================================================================== claims
IsCall == last.op = "writeline"
Wrote == IsCall /\ last.stage = "write"
WroteOk == Wrote /\ last.raised = "none"
NumLines(content) == Cardinality({ i \in 1..Len(content) : content[i] = NL })
HasNewline(str) == \E i \in 1..Len(str) : str[i] = NL
\* the argument after strip() and the optional substitution, spelled out
Passed(file_arg) ==
    IF replace_spaces_with_underscores
    THEN RE_REPLACE_UNDERSCORES_sub(strip(file_arg)) ELSE strip(file_arg)
\* the resolved form of an allow-list entry or of a passed path
Resolved(path) ==
    make_save_path(
        normpath(IF is_absolute_path(path) THEN path
                 ELSE os_path_join(move_files_to, path)), IS_WIN, IS_MACOS)

\* C1: with writing enabled, a call whose resolved target exists on disk and
\* is the resolved form of no entry of files_allowed leaves that file's
\* contents as they were.
C1_UnlistedFileUntouched ==
    (IsCall /\ last.was_enabled /\ last.stage \in { "write", "unlisted" }
        /\ last.existed /\ last.target \in DOMAIN fs_files
        /\ last.target \notin { Resolved(e) : e \in last.was_allowed })
    => fs_files[last.target] = last.before

\* C2: while writing_enabled is false every call stops at the switch: no file
\* or directory is created or modified, files_allowed keeps its value and
\* the call returns the empty string.
C2_DisabledWritesNothing ==
    ~writing_enabled =>
        /\ fs_files = InitFiles
        /\ fs_dirs = InitDirs
        /\ IsCall => /\ last.stage = "disabled"
                     /\ files_allowed = last.was_allowed
                     /\ last.ret = <<>>
                     /\ ~last.propagated

C2_Witness ==
    /\ ~writing_enabled
    /\ IsCall /\ last.file = ARG_ABS /\ last.reset = "1"
    /\ ncalls = MaxCalls

\* C3 as stated: a call that writes leaves old content + text + "\n" (append)
\* or text + "\n" (reset), creating the file if need be, and that is exactly
\* one more line (append) or exactly one line (reset).
C3_OneLinePerCall ==
    WroteOk =>
        LET old == IF Truthy(last.reset) THEN <<>> ELSE last.before IN
        /\ last.target \in DOMAIN fs_files
        /\ fs_files[last.target] = old \o last.text \o << NL >>
        /\ NumLines(fs_files[last.target]) = NumLines(old) + 1

\* C3 as amended: the same content, and it is exactly one more line when the
\* text holds no line break (reset unset or empty appends, reset set
\* overwrites).
C3_AppendOrOverwrite ==
    WroteOk =>
        LET old == IF last.reset \in { "None", "" } THEN last.before ELSE <<>> IN
        /\ last.target \in DOMAIN fs_files
        /\ fs_files[last.target] = old \o last.text \o << NL >>
        /\ ~last.existed /\ last.reset \in { "None", "" }
              => fs_files[last.target] = last.text \o << NL >>
        /\ ~HasNewline(last.text)
              => NumLines(fs_files[last.target]) = NumLines(old) + 1

\* two appending calls: the second line follows the first in a file the
\* first call created
C3_Witness ==
    /\ WroteOk /\ last.reset = "None" /\ last.existed
    /\ last.target # FILE_E
    /\ last.before = TEXT_X \o << NL >>
    /\ fs_files[last.target] = TEXT_X \o << NL >> \o TEXT_X \o << NL >>

HasDotDot(path) == << ".", "." >> \in Range(split(path, SEP))

C5_AutoRegistration ==
    Wrote =>
        /\ ~last.existed
              => /\ Passed(last.file) \in files_allowed
                 /\ files_allowed = last.was_allowed \cup { Passed(last.file) }
        /\ last.again
              => /\ last.listed
                 /\ "Existing file not in allowed list. File not written" \notin last.logs

\* a second call on a file the first call created and registered
C5_Witness ==
    /\ Wrote /\ last.again /\ last.existed /\ last.listed
    /\ last.file = ARG_REL /\ replace_spaces_with_underscores
    /\ last.was_allowed = { << "d", "/", ".", "a", "_", "b" >> }

\* C6: every entry a call adds to files_allowed resolves to a file that is
\* on disk when the call returns; a call in which makedirs, open or write
\* raised OSError leaves files_allowed as it was.
C6_OnlyCreatedRegistered ==
    IsCall =>
        /\ \A e \in files_allowed \ last.was_allowed : Resolved(e) \in DOMAIN fs_files
        /\ last.raised # "none" => files_allowed = last.was_allowed

C8_ReturnsEmpty ==
    IsCall =>
        /\ last.ret = <<>>
        /\ ~last.propagated
        /\ last.stage \in { "disabled", "blank", "relative", "write" }
        /\ last.raised # "none" => "Error writing to file" \in last.logs

C8_Witness ==
    /\ Wrote /\ last.raised = "makedirs" /\ ~last.listed /\ last.ret = <<>>

NoNewlineIn(files) == \A e \in files : ~HasNewline(e)

\* C9: for a set of paths without line breaks, load() shows the non-blank
\* entries sorted, one per line, and the checkbox as configured; save()
\* right after load() stores the set minus the blank entry and the same
\* writing_enabled.
C9_PageRoundTrip ==
    LET s == last.was_allowed
        entries == s \ { <<>> }
        lines == split(ui_text, NL)
    IN
    /\ (last.op = "load" /\ NoNewlineIn(s))
          => /\ ui_checked = last.was_enabled
             /\ entries = {} => ui_text = <<>>
             /\ entries # {}
                   => /\ Range(lines) = entries
                      /\ Len(lines) = Cardinality(entries)
                      /\ \A i, j \in 1..Len(lines) :
                             i < j => str_lt(lines[i], lines[j])
    /\ (last.op = "save" /\ last.roundtrip /\ NoNewlineIn(s))
          => /\ files_allowed = entries
             /\ writing_enabled = last.was_enabled

C9_Witness ==
    /\ last.op = "save" /\ last.roundtrip
    /\ last.was_allowed = { <<>>, FILE_E, ARG_REL, << "f" >> }
    /\ files_allowed = { FILE_E, ARG_REL, << "f" >> }
    /\ writing_enabled

\* C10: when the target exists and files_allowed holds the very string the
\* script passes as the file argument, the call finds the target in the
\* expanded allow-list.
C10_SameStringAllowed ==
    (Wrote /\ last.existed /\ last.file \in last.was_allowed) => last.listed

====
